---------------------------- MODULE Spec2Model ----------------------------
(***************************************************************************)
(* Model of the identifier-code engine of grilo/createuser:                *)
(*   masking/locale/es/bankaccount.py   BBAN, IBAN, Bank, BANKS            *)
(*   masking/locale/es/pin.py           DNI, letters, foreign              *)
(*                                                                         *)
(* A Python string is a sequence of one-character strings, so that         *)
(* slicing, indexing, zfill, replace and int() are computed character by   *)
(* character as the interpreter does.  A call either returns a value or    *)
(* raises an exception: both outcomes are values of the model              *)
(* (Return / Raise), and an exception raised by a callee propagates        *)
(* through its callers.  The state records the module-level tables and     *)
(* the last call made on the public interface with its outcome.            *)
(***************************************************************************)
EXTENDS Integers, Sequences, FiniteSets

VARIABLES
    BANKS,      \* bankaccount.BANKS : dict  code -> {name, bic}
    letters,    \* pin.letters       : list of the 23 check letters
    foreign,    \* pin.foreign       : list of the NIE prefix letters
    op,         \* name of the last call
    args,       \* its arguments (with the random draws it consumed)
    result      \* its outcome: a returned value or a raised exception

vars == <<BANKS, letters, foreign, op, args, result>>

----------------------------------------------------------------------------
(* Bounds of the model: how many sample inputs are drawn.                  *)

MaxBanks == 2
MaxBranch == 1
MaxRnd == 1
MaxBody == 3
MaxCheck == 14

----------------------------------------------------------------------------
(* Outcomes of a call.                                                     *)

None == <<"None">>

Return(v) == [exc |-> "", val |-> v]

Raise(e) == [exc |-> e, val |-> None]

Raised(r) == r.exc # ""

\* the rest of a function body after a call: skipped when the call raised
Bind(r, Rest(_)) == IF Raised(r) THEN r ELSE Rest(r.val)

----------------------------------------------------------------------------
(* Python strings and builtins.                                            *)

digits == <<"0","1","2","3","4","5","6","7","8","9">>

ascii_uppercase ==
    <<"A","B","C","D","E","F","G","H","I","J","K","L","M",
      "N","O","P","Q","R","S","T","U","V","W","X","Y","Z">>

ascii_lowercase ==
    <<"a","b","c","d","e","f","g","h","i","j","k","l","m",
      "n","o","p","q","r","s","t","u","v","w","x","y","z">>

Contains(seq, x) == \E i \in DOMAIN seq : seq[i] = x

\* list.index(x), 0-based; raises ValueError when x is absent
Index(seq, x) ==
    IF Contains(seq, x)
    THEN Return((CHOOSE i \in DOMAIN seq : seq[i] = x /\ \A j \in 1..(i-1) : seq[j] # x) - 1)
    ELSE Raise("ValueError")

\* s[a:b] and s[a:] and s[i] (0-based, slices clipped to the string)
Slice(s, a, b) == SubSeq(s, a + 1, IF b > Len(s) THEN Len(s) ELSE b)

SliceFrom(s, a) == SubSeq(s, a + 1, Len(s))

Item(s, i) == s[i + 1]

isdigit(c) == Contains(digits, c)

isalpha(c) == Contains(ascii_uppercase, c) \/ Contains(ascii_lowercase, c)

upper(s) ==
    [i \in DOMAIN s |->
        IF Contains(ascii_lowercase, s[i])
        THEN ascii_uppercase[Index(ascii_lowercase, s[i]).val + 1]
        ELSE s[i]]

\* str(n) of an int n >= 0
RECURSIVE str(_)
str(n) ==
    IF n < 10 THEN <<digits[n + 1]>>
    ELSE str(n \div 10) \o <<digits[(n % 10) + 1]>>

zfill(s, width) ==
    IF Len(s) >= width THEN s
    ELSE [i \in 1..(width - Len(s)) |-> "0"] \o s

\* An int beyond the checker's machine integers is held as two limbs,
\* <<hi, lo>> = hi * 10^5 + lo with 0 <= lo < 10^5; str() of it:
str_long(n) ==
    IF n[1] = 0 THEN str(n[2])
    ELSE str(n[1]) \o zfill(str(n[2]), 5)

IsDecimal(s) == Len(s) > 0 /\ \A i \in DOMAIN s : isdigit(s[i])

DigitVal(c) == Index(digits, c).val

RECURSIVE IntVal(_)
IntVal(s) ==
    IF s = <<>> THEN 0
    ELSE IntVal(SubSeq(s, 1, Len(s) - 1)) * 10 + DigitVal(s[Len(s)])

\* int(s): the strings of the model hold no blank and no sign
int(s) == IF IsDecimal(s) THEN Return(IntVal(s)) ELSE Raise("ValueError")

\* int(s) % m for a decimal string of any length (Python ints are
\* unbounded): the remainder is carried digit by digit
RECURSIVE IntValMod(_, _)
IntValMod(s, m) ==
    IF s = <<>> THEN 0
    ELSE (IntValMod(SubSeq(s, 1, Len(s) - 1), m) * 10 + DigitVal(s[Len(s)])) % m

int_mod(s, m) == IF IsDecimal(s) THEN Return(IntValMod(s, m)) ELSE Raise("ValueError")

\* map(int, list(s))
map_int(s) ==
    IF \A i \in DOMAIN s : isdigit(s[i])
    THEN Return([i \in DOMAIN s |-> DigitVal(s[i])])
    ELSE Raise("ValueError")

\* sum([x*y for x, y in zip(xs, ys)]): zip stops at the shorter list
RECURSIVE SumProducts(_, _, _)
SumProducts(xs, ys, n) ==
    IF n = 0 THEN 0 ELSE SumProducts(xs, ys, n - 1) + xs[n] * ys[n]

sum_zip(xs, ys) == SumProducts(xs, ys, IF Len(xs) < Len(ys) THEN Len(xs) ELSE Len(ys))

\* s.replace(old, new): every occurrence of the character old
RECURSIVE replace(_, _, _)
replace(s, old, new) ==
    IF s = <<>> THEN <<>>
    ELSE (IF Head(s) = old THEN new ELSE <<Head(s)>>) \o replace(Tail(s), old, new)

----------------------------------------------------------------------------
(* bankaccount.BANKS, in source order (the one non-ASCII letter of a name  *)
(* is written N).                                                          *)

BANKS_TABLE ==
  << [code |-> <<"0","1","3","6">>, name |-> "ARESBANK", bic |-> "AREBESMMXXX"],
     [code |-> <<"0","2","3","8">>, name |-> "BANCO-PASTOR", bic |-> "POPUESMMXXX"],
     [code |-> <<"0","1","3","0">>, name |-> "BANCO-CAIXA-GRAL", bic |-> "CGDIESMMXXX"],
     [code |-> <<"0","0","3","8">>, name |-> "SANTANDER-BANCO-EMISIONES", bic |-> "BSCHESMMXXX"],
     [code |-> <<"0","1","3","2">>, name |-> "BANCO-PROMOCION-NEGOCIOS", bic |-> "PRNEESM1XXX"],
     [code |-> <<"0","1","3","3">>, name |-> "NUEVO-MICROBANK", bic |-> "MIKBESB1XXX"],
     [code |-> <<"0","2","3","3">>, name |-> "POPULAR-BANCA-PRIVADA", bic |-> "POPIESMMXXX"],
     [code |-> <<"0","2","3","2">>, name |-> "BANCO-INVERSIS", bic |-> "INVLESMMXXX"],
     [code |-> <<"0","2","3","1">>, name |-> "DEXIA-SABADELL", bic |-> "DSBLESMMXXX"],
     [code |-> <<"0","0","3","6">>, name |-> "SANTANDER-IVESTMENT", bic |-> "SABNESMMXXX"],
     [code |-> <<"0","1","3","8">>, name |-> "BANKOA", bic |-> "BKOAES22XXX"],
     [code |-> <<"0","2","3","9">>, name |-> "EVO-BANK", bic |-> "EVOBESMMXXX"],
     [code |-> <<"0","2","3","5">>, name |-> "BANCO-PICHINCHA", bic |-> "PIESESM1XXX"],
     [code |-> <<"0","2","3","4">>, name |-> "BANCO-CAMINOS", bic |-> "CCOCESMMXXX"],
     [code |-> <<"2","0","9","5">>, name |-> "KUTXABANK", bic |-> "BASKES2BXXX"],
     [code |-> <<"2","0","9","6">>, name |-> "CAJA-ESPANA-NVERSIONES", bic |-> "CSPAES2LXXX"],
     [code |-> <<"3","0","9","5">>, name |-> "CAJA-RURAL-SANROQUE", bic |-> "BCOEESMM095"],
     [code |-> <<"2","0","1","3">>, name |-> "CATALUNYA-BANK", bic |-> "CESCESBBXXX"],
     [code |-> <<"3","0","4","5">>, name |-> "CAIXA-RURAL-ALTEA", bic |-> "BCOEESMM045"],
     [code |-> <<"0","1","3","1">>, name |-> "BANCO-ESPIRITO-SANTO", bic |-> "BESMESMMXXX"],
     [code |-> <<"1","5","4","6">>, name |-> "CNH-CAPITAL", bic |-> "CNCUFRP1XXX"],
     [code |-> <<"1","5","4","4">>, name |-> "ANDBANK", bic |-> "BACAESMMXXX"],
     [code |-> <<"1","5","4","5">>, name |-> "CREDIT-ACRICOLE-LUXEMBURGO", bic |-> "AGRIESMMXXX"],
     [code |-> <<"1","5","3","5">>, name |-> "AKF-BANK", bic |-> "AKFBDE33XXX"],
     [code |-> <<"3","1","2","1">>, name |-> "CAJA-RURAL-CHESTE", bic |-> "BCOEESMM121"],
     [code |-> <<"3","1","2","7">>, name |-> "CAJA-RURAL-CASASIBANEZ", bic |-> "BCOEESMM127"],
     [code |-> <<"1","5","4","9">>, name |-> "MAINFIRST", bic |-> "MAIFDFFXXX"],
     [code |-> <<"0","1","4","4">>, name |-> "BNP-PARIBAS-SECURITES", bic |-> "PARBESMXXXX"],
     [code |-> <<"2","4","0","1">>, name |-> "CAJA-PENSIONES-BARCELONA", bic |-> "CAIXESBBXXX"],
     [code |-> <<"1","4","6","5">>, name |-> "ING-DIRECT", bic |-> "INGDESMMXXX"],
     [code |-> <<"1","4","6","7">>, name |-> "HYPOTHEKENBANK-FRNAKFURT", bic |-> "EHYPESMXXXX"],
     [code |-> <<"3","1","9","0">>, name |-> "CAJA-RURAL-ALBACETE", bic |-> "BCOEESMM190"],
     [code |-> <<"1","4","6","0">>, name |-> "CREDIT-SUISSE-AG", bic |-> "CRESESMMXXX"],
     [code |-> <<"1","4","6","3">>, name |-> "BANQUE-PSA-FINANCE", bic |-> "PSABESM1XXX"],
     [code |-> <<"0","0","4","9">>, name |-> "BANCO-SANTANDER", bic |-> "BSCHESMMXXX"],
     [code |-> <<"0","1","2","5">>, name |-> "BANCOFAR", bic |-> "BAOFESM1XXX"],
     [code |-> <<"0","1","2","2">>, name |-> "CITIBANK", bic |-> "CITIES2XXXX"],
     [code |-> <<"0","1","2","1">>, name |-> "BANCO-OCCIDENTAL", bic |-> "OCBAESM1XXX"],
     [code |-> <<"0","0","3","1">>, name |-> "BANCO-ETCHEVARRIA", bic |-> "ETCHES2GXXX"],
     [code |-> <<"3","1","8","3">>, name |-> "CAJA-ARQUITECTOS-COOP", bic |-> "CASDESBBXXX"],
     [code |-> <<"0","0","4","6">>, name |-> "BANCO-GALLEGO", bic |-> "GALEES2GXXX"],
     [code |-> <<"0","1","2","8">>, name |-> "BANKINTER", bic |-> "BKBKESMMXXX"],
     [code |-> <<"1","4","9","0">>, name |-> "SELF-TRADE-BANK", bic |-> "SELFESMMXXX"],
     [code |-> <<"1","4","9","1">>, name |-> "TRIODOS-BANK", bic |-> "TRIOESMMXXX"],
     [code |-> <<"1","4","9","2">>, name |-> "BNP-PARIBAS-LEASE", bic |-> "ESSIESMMXXX"],
     [code |-> <<"1","4","9","3">>, name |-> "CAIXA-BANCO-INVESTIMENTO", bic |-> "CXBIPTPLXXX"],
     [code |-> <<"1","4","9","4">>, name |-> "INTESA-SANPAOLO", bic |-> "BCITESMMXXX"],
     [code |-> <<"3","1","3","0">>, name |-> "CAJA-RURAL-ALMASSORA", bic |-> "BCOEESMM130"],
     [code |-> <<"1","4","9","6">>, name |-> "GENEFIM", bic |-> "GENFFRP1XXX"],
     [code |-> <<"1","4","9","9">>, name |-> "CLAAS-FINANCIAL", bic |-> "CLAAFRP1XXX"],
     [code |-> <<"3","1","3","8">>, name |-> "CAJA-RURAL-BETXI", bic |-> "BCOEESMM138"],
     [code |-> <<"3","0","3","5">>, name |-> "CAJA-LABORAL-POPULAR", bic |-> "CLPEES2MXXX"],
     [code |-> <<"2","4","1","5">>, name |-> "CAJA-EXTREMADURA", bic |-> "CECAESMM099"],
     [code |-> <<"2","1","0","5">>, name |-> "BANCO-CASTILLA-MANCHA", bic |-> "CECAESMM105"],
     [code |-> <<"2","4","1","6">>, name |-> "CAJA-CANTABRIA", bic |-> "CECAESMM066"],
     [code |-> <<"2","0","3","8">>, name |-> "BANKIA", bic |-> "CAHMESMMXXX"],
     [code |-> <<"0","1","1","3">>, name |-> "BANCO-INDUSTRIAL-BILBAO", bic |-> "INBBESM1XXX"],
     [code |-> <<"0","0","5","9">>, name |-> "BANCO-MADRID", bic |-> "MADRESMMXXX"],
     [code |-> <<"0","0","5","8">>, name |-> "BNP-PARIBAS", bic |-> "BNPAESMMXXX"],
     [code |-> <<"0","1","1","5">>, name |-> "BANCO-CASTILLA-LAMANCHA", bic |-> "CECAESMM115"],
     [code |-> <<"0","0","5","7">>, name |-> "BANCO-DEPOSITARIO-BBVA", bic |-> "BVADESMMXXX"],
     [code |-> <<"3","1","4","0">>, name |-> "CAJA-RURAL-GUISSONA", bic |-> "BCOEESMM140"],
     [code |-> <<"1","4","8","2">>, name |-> "JOHN-DEERE-BANK", bic |-> "CHASESM3XXX"],
     [code |-> <<"1","4","8","1">>, name |-> "BANCO-MAIS", bic |-> "ESMMES64XXX"],
     [code |-> <<"1","4","8","0">>, name |-> "VOLKSWAGEN-BANK", bic |-> "VOWAES21XXX"],
     [code |-> <<"1","4","8","7">>, name |-> "TOYOTA-KREDITBANK", bic |-> "TKGTFR21XXX"],
     [code |-> <<"1","4","8","5">>, name |-> "BANK-OF-AMERICA", bic |-> "BOFAES2XXXX"],
     [code |-> <<"1","4","8","8">>, name |-> "PICTET-CIE", bic |-> "PICTESMMXXX"],
     [code |-> <<"3","1","3","4">>, name |-> "CAJA-RURAL-SRAESPERANZA", bic |-> "BCOEESMM134"],
     [code |-> <<"3","1","6","5">>, name |-> "CAJA-RURAL-SANISIDROVILAFAMES", bic |-> "BCOEESMM165"],
     [code |-> <<"3","0","2","9">>, name |-> "CAJA-CREDITO-PETREL", bic |-> "BCOEESMM029"],
     [code |-> <<"3","1","6","2">>, name |-> "CAJA-RURAL-BENICARLO", bic |-> "BCOEESMM162"],
     [code |-> <<"3","0","2","5">>, name |-> "CAIXA-CREDIT-ENGINYERS", bic |-> "CDENESBBXXX"],
     [code |-> <<"3","0","2","3">>, name |-> "CAJA-RURAL-GRANADA", bic |-> "BCOEESMM023"],
     [code |-> <<"3","0","2","0">>, name |-> "CAJA-RURAL-UTRERA", bic |-> "BCOEESMM020"],
     [code |-> <<"1","5","2","4">>, name |-> "UBI-BANCA", bic |-> "UBIBESMMXXX"],
     [code |-> <<"1","5","2","5">>, name |-> "BANQUE-CHAABI-MAROC", bic |-> "BCDMESMMXXX"],
     [code |-> <<"2","1","0","8">>, name |-> "BANCO-CAJAESPANA-SALAMANCASORIA", bic |-> "CSPAES2L108"],
     [code |-> <<"3","1","6","0">>, name |-> "CAIXA-RURAL-SANTJOSEPCOOP", bic |-> "BCOEESMM160"],
     [code |-> <<"0","2","0","0">>, name |-> "PRIVAT-BANK-DEGROOF", bic |-> "PRVBESB1XXX"],
     [code |-> <<"1","5","2","3">>, name |-> "MERCEDES-BENZ-BANK", bic |-> "DEUTESBBXXX"],
     [code |-> <<"0","4","4","4">>, name |-> "SISTEMA-4B", bic |-> ""],
     [code |-> <<"1","5","2","8">>, name |-> "JCB-FINANCE", bic |-> "ES1528"],
     [code |-> <<"1","5","3","0">>, name |-> "SOFINLOC", bic |-> "FIOFESM1XXX"],
     [code |-> <<"0","1","0","8">>, name |-> "SOCIETE-GENERALE", bic |-> "SOGEESMMXXX"],
     [code |-> <<"3","1","5","2">>, name |-> "CAJA-RURAL-VILLAR", bic |-> "BCOEESMM152"],
     [code |-> <<"3","1","5","0">>, name |-> "CAJA-RURAL-ALBALCOOP", bic |-> "BCOEESMM150"],
     [code |-> <<"3","1","5","7">>, name |-> "CAJA-RURAL-JUNQUERA", bic |-> "BCOEESMM157"],
     [code |-> <<"9","0","0","0">>, name |-> "BANCO-DE-ESPANA", bic |-> "ESPBESMMXXX"],
     [code |-> <<"3","1","5","9">>, name |-> "CAIXA-POPULAR-SDADCOOP", bic |-> "BCOEESMM159"],
     [code |-> <<"0","2","3","7">>, name |-> "CAJASUR-BANCO", bic |-> "CSURES2CXXX"],
     [code |-> <<"3","0","1","8">>, name |-> "CAJA-RURAL-SANAGUSTIN", bic |-> "BCOEESMM018"],
     [code |-> <<"2","0","4","5">>, name |-> "CAIXA-DESTALVIS-ONTINENT", bic |-> "CECAESMM045"],
     [code |-> <<"2","0","5","6">>, name |-> "CAIXA-DESTALVIS-POLLENSA", bic |-> "CECAESMM056"],
     [code |-> <<"3","0","1","6">>, name |-> "CAJA-RURAL-SALAMANCA", bic |-> "BCOEESMM016"],
     [code |-> <<"3","0","1","7">>, name |-> "CAJA-RURAL-SORIA", bic |-> "BCOEESMM017"],
     [code |-> <<"2","0","4","8">>, name |-> "LEBERBANK", bic |-> "CECAESMM048"],
     [code |-> <<"1","5","1","0">>, name |-> "SAXO-BANK", bic |-> "SAXODKKKXXX"],
     [code |-> <<"0","2","1","1">>, name |-> "EBN-BANCO-NEGOCIOS", bic |-> "PROAESMMXXX"],
     [code |-> <<"1","5","3","6">>, name |-> "OREY-FINANCIAL", bic |-> "OVSCPTP1XXX"],
     [code |-> <<"0","1","9","8">>, name |-> "BANCO-COOPERATIVO-ESPANOL", bic |-> "BCOEESMMXXX"],
     [code |-> <<"3","0","9","6">>, name |-> "CAIXA-RURAL-LALCUDIA", bic |-> "BCOEESMM096"],
     [code |-> <<"1","5","3","2">>, name |-> "BNP-PARIBAS-FACTOR", bic |-> "BNPAESMSXXX"],
     [code |-> <<"1","5","3","1">>, name |-> "CREDIT-SUISSE", bic |-> "CSROESM1XXX"],
     [code |-> <<"0","2","1","6">>, name |-> "TARGOBANK", bic |-> "POHIESMMXXX"],
     [code |-> <<"0","2","1","9">>, name |-> "BANQUE-MAROCAINE-COMMERCE", bic |-> "BMCEESMMXXX"],
     [code |-> <<"0","2","1","8">>, name |-> "FCE-BANK-PLC", bic |-> "FCEFESM1XXX"],
     [code |-> <<"0","1","9","0">>, name |-> "BANCO-BPI", bic |-> "BBPIESMMXXX"],
     [code |-> <<"0","2","3","6">>, name |-> "SABADELL-SOLBANK", bic |-> "LOYIESMMXXX"],
     [code |-> <<"1","0","0","0">>, name |-> "ICO", bic |-> "ICROESMMXXX"],
     [code |-> <<"3","1","1","5">>, name |-> "CAJA-RURAL-MADRESOL", bic |-> "BCOEESMM115"],
     [code |-> <<"3","1","2","3">>, name |-> "CAIXA-RURAL-TURIS", bic |-> "BCOEESMM123"],
     [code |-> <<"1","5","2","2">>, name |-> "EFG-BANK", bic |-> "EFGBESMMXXX"],
     [code |-> <<"3","0","0","5">>, name |-> "CAJA-RURAL-CENTRAL", bic |-> "BCOEESMM005"],
     [code |-> <<"3","0","0","7">>, name |-> "CAJA-RURAL-GIJON", bic |-> "BCOEESMM007"],
     [code |-> <<"3","0","0","1">>, name |-> "CAJA-RURAL-ALMENDRALEJO", bic |-> "BCOEESMM001"],
     [code |-> <<"3","1","6","6">>, name |-> "CAIXA-RURAL-LESCOVESVINROMAS", bic |-> "BCOEESMM166"],
     [code |-> <<"2","0","0","0">>, name |-> "CECABANK", bic |-> "CECAESMMXXX"],
     [code |-> <<"3","0","0","9">>, name |-> "CAJA-RURAL-EXTREMADURA", bic |-> "BCOEESMM009"],
     [code |-> <<"3","0","0","8">>, name |-> "CAJA-RURAL-NAVARRA", bic |-> "BCOEESMM008"],
     [code |-> <<"3","1","1","3">>, name |-> "CAJA-RURAL-SANJOSEALCORA", bic |-> "BCOEESMM113"],
     [code |-> <<"2","4","1","4">>, name |-> "CAJA-ASTURIAS", bic |-> "CECAESMMO48"],
     [code |-> <<"0","1","8","4">>, name |-> "BANCO-EUROPEO-FINANZAS", bic |-> "BEDFESM1XXX"],
     [code |-> <<"3","1","4","4">>, name |-> "CAJA-RURAL-VILLAMALEA", bic |-> "BCOEESMM144"],
     [code |-> <<"0","1","8","6">>, name |-> "BANDO-MEDIOLANUM", bic |-> "BFIVESBBXXX"],
     [code |-> <<"0","1","8","2">>, name |-> "BBVA", bic |-> "BBVAESMMXXX"],
     [code |-> <<"0","1","8","8">>, name |-> "BANCO-ALCALA", bic |-> "ALCLESMMXXX"],
     [code |-> <<"1","5","0","2">>, name |-> "IKB-DEUTSCHE-INDUSTRIEBANK", bic |-> "IKBDESM1XXX"],
     [code |-> <<"1","5","0","0">>, name |-> "NATIXIS-LEASE", bic |-> "NALEFRP1XXX"],
     [code |-> <<"0","0","6","5">>, name |-> "BLARCLAYS-BANK", bic |-> "BARCESMMXXX"],
     [code |-> <<"3","0","8","9">>, name |-> "CAJA-RURAL-BAENA", bic |-> "BCOEESMM089"],
     [code |-> <<"1","5","0","4">>, name |-> "HONDA-BANK", bic |-> "HONDDEF1XXX"],
     [code |-> <<"0","0","6","1">>, name |-> "BANCA-MARCH", bic |-> "BMARES2MXXX"],
     [code |-> <<"3","0","8","5">>, name |-> "CAJA-RURAL-ZAMORA", bic |-> "BCOEESMM085"],
     [code |-> <<"1","5","0","8">>, name |-> "RCI-BANQUE", bic |-> "RCIDDE31XXX"],
     [code |-> <<"1","5","0","9">>, name |-> "BANCO-PRIMUS", bic |-> "PRUUPTP1XXX"],
     [code |-> <<"3","0","8","1">>, name |-> "CAJA-RURAL-CASTILLALAMANCHA", bic |-> "BCOEESMM081"],
     [code |-> <<"3","0","8","0">>, name |-> "CAJA-RURAL-TERUEL", bic |-> "BCOEESMM080"],
     [code |-> <<"0","4","8","8">>, name |-> "BANCO-FINANCIERO", bic |-> "BFASESMMXXX"],
     [code |-> <<"2","4","2","9">>, name |-> "CAJA-BADAJOZ", bic |-> "CECAESMM429"],
     [code |-> <<"0","1","6","9">>, name |-> "BANCO-NACION-ARGENTINA", bic |-> "NACNESMMXXX"],
     [code |-> <<"0","1","6","8">>, name |-> "ING-BELGIUM", bic |-> "BBRUESMXXXX"],
     [code |-> <<"0","0","0","3">>, name |-> "BANCO-DEPOSITOS", bic |-> "BDEPESM1XXX"],
     [code |-> <<"2","4","2","0">>, name |-> "IBERCAJA", bic |-> "CAZRES2ZXXX"],
     [code |-> <<"0","1","6","2">>, name |-> "HSBC-BANK", bic |-> "MIDLESMMXXX"],
     [code |-> <<"0","1","6","1">>, name |-> "DEUTSCHE-BANK-AMERICAS", bic |-> "BKTRESM1XXX"],
     [code |-> <<"0","1","6","0">>, name |-> "BANK-OF-TOKYO", bic |-> "BOTKESMXXXX"],
     [code |-> <<"0","1","6","7">>, name |-> "BNP-PARIBAS-FORTIS", bic |-> "GEBAESMMXXX"],
     [code |-> <<"2","4","2","6">>, name |-> "CAJA-RONDA", bic |-> "UCJAES2MXXX"],
     [code |-> <<"0","4","8","7">>, name |-> "BANCO-MARE-NOSTRUM", bic |-> "GBMNESMMXXX"],
     [code |-> <<"3","0","7","0">>, name |-> "CAIXA-RURAL-GALEGA", bic |-> "BCOEESMM070"],
     [code |-> <<"0","1","4","9">>, name |-> "BNP-SUCURSLA-ESPANA", bic |-> "BNPAESMSXXX"],
     [code |-> <<"3","0","7","6">>, name |-> "CAJA-RURAL-CAJASIETE", bic |-> "BCOEESMM076"],
     [code |-> <<"3","1","7","4">>, name |-> "CAIXA-RURAL-VINAROS", bic |-> "BCOEESMM174"],
     [code |-> <<"3","1","7","9">>, name |-> "CAJA-RURAL-ALGINET", bic |-> "BCOEESMM179"],
     [code |-> <<"0","0","7","3">>, name |-> "OPEN-BANK", bic |-> "OPENESMMXXX"],
     [code |-> <<"1","4","5","7">>, name |-> "DELAGE-LANDEN-INTB", bic |-> "LLISESM1XXX"],
     [code |-> <<"0","0","7","5">>, name |-> "BANCO-POPULAR", bic |-> "POPUESMMXXX"],
     [code |-> <<"1","4","5","1">>, name |-> "CAISSE-REGIONALE-SUDMEDITERRANEE", bic |-> "CRCGESB1XXX"],
     [code |-> <<"3","1","1","6">>, name |-> "CAJA-RURAL-MOTACUERVO", bic |-> "BCOEESMM116"],
     [code |-> <<"2","1","0","3">>, name |-> "UNICAJA-BANCO", bic |-> "UCJAES2MXXX"],
     [code |-> <<"0","0","7","8">>, name |-> "BANCO-PUEYO", bic |-> "BAPUES22XXX"],
     [code |-> <<"2","1","0","0">>, name |-> "CAIXABANK", bic |-> "CAIXESBBXXX"],
     [code |-> <<"1","4","5","9">>, name |-> "COPERATIVE-RAIFFEISEN", bic |-> "PRABESMMXXX"],
     [code |-> <<"1","5","1","3">>, name |-> "CAIXA-GERAL-DEPOSITOS", bic |-> "CGDIES21XXX"],
     [code |-> <<"2","1","0","4">>, name |-> "CAJA-SALAMANCA-SORIA", bic |-> "CSSOES2SXXX"],
     [code |-> <<"2","4","2","8">>, name |-> "CAJA-CIRCULO-BUROS", bic |-> "CECAESMM428"],
     [code |-> <<"3","1","4","6">>, name |-> "CAJA-CREDITO-COOPERATIVO", bic |-> "CCCVESM1XXX"],
     [code |-> <<"0","0","1","1">>, name |-> "ALLFUNDS-BANK", bic |-> "ALLFESMMXXX"],
     [code |-> <<"1","4","7","5">>, name |-> "CORTAL-CONSORS", bic |-> "CCSEESM1XXX"],
     [code |-> <<"2","4","3","3">>, name |-> "CECA", bic |-> "CECAESMMXXX"],
     [code |-> <<"2","4","3","2">>, name |-> "CAJA-VITORIA-ALAVA", bic |-> "CECAESMM097"],
     [code |-> <<"2","4","3","1">>, name |-> "CAJA-GUIPUZOCA", bic |-> "CGGKES22XXX"],
     [code |-> <<"2","4","3","0">>, name |-> "BILBAO-BIZKAIA-KUTXA", bic |-> "BASKES2BXXX"],
     [code |-> <<"0","0","1","9">>, name |-> "DEUTSCHE-BANK", bic |-> "DEUTESBBXXX"],
     [code |-> <<"3","0","6","3">>, name |-> "CAJA-RURAL-CORDOBA", bic |-> "BCOEESMM063"],
     [code |-> <<"3","0","6","0">>, name |-> "CAJA-RURAL-FUENTESEGOVIA", bic |-> "BCOEESMM060"],
     [code |-> <<"3","0","6","7">>, name |-> "CAJA-RURAL-JAEN", bic |-> "BCOEESMM067"],
     [code |-> <<"3","1","1","0">>, name |-> "CAJA-RURAL-CATOLICOAGRARIA", bic |-> "BCOESSMM110"],
     [code |-> <<"1","4","7","2">>, name |-> "CREDIT-AGRICOLE-FACTORING", bic |-> "UCSSESM1XXX"],
     [code |-> <<"3","1","0","4">>, name |-> "CAJA-RURAL-CANETETORRES", bic |-> "BCOEESMM104"],
     [code |-> <<"3","1","0","5">>, name |-> "CAIXA-RURAL-CALLOSA", bic |-> "BCOEESMM105"],
     [code |-> <<"1","4","7","0">>, name |-> "BANCO-PORTUGUES-INVESTIMENTO", bic |-> "BPIPESM1XXX"],
     [code |-> <<"3","1","0","2">>, name |-> "CAIXA-SANTFERRER-DUIXO", bic |-> "BCOEESMM102"],
     [code |-> <<"1","5","3","8">>, name |-> "INDUSTRIAL-COMMERCIAL-CHINA", bic |-> "ICBKESMMXXX"],
     [code |-> <<"3","1","8","6">>, name |-> "CAIXA-RURAL-ALBALAT", bic |-> "BCOEESMM186"],
     [code |-> <<"3","1","8","7">>, name |-> "CAJA-RURAL-DELSUR", bic |-> "BCOEESMM187"],
     [code |-> <<"1","5","0","5">>, name |-> "EUROPE-ARAB-BANK", bic |-> "ARABESMMXXX"],
     [code |-> <<"2","4","2","1">>, name |-> "CAJA-GRANADA", bic |-> "CECAESMM031"],
     [code |-> <<"0","0","8","1">>, name |-> "BANCO-SABADELL", bic |-> "BSABESBBXXX"],
     [code |-> <<"0","0","8","3">>, name |-> "RENTA4", bic |-> "RENBESMMXXX"],
     [code |-> <<"0","2","2","9">>, name |-> "BANCO-POPULAR-ESA", bic |-> "POPLESMMXXX"],
     [code |-> <<"3","1","9","1">>, name |-> "CAJA-RURAL-ARAGON", bic |-> "BCOEESMM191"],
     [code |-> <<"0","2","2","0">>, name |-> "BANCO-FINANTIA-CAPITAL", bic |-> "FIOFESM1XXX"],
     [code |-> <<"2","4","2","4">>, name |-> "CAJA-BALEARES", bic |-> "CECAESMM051"],
     [code |-> <<"0","2","2","3">>, name |-> "GENERAL-ELECTRIC-BANK", bic |-> "GEECESB1XXX"],
     [code |-> <<"0","2","2","4">>, name |-> "SANTANDER-CONSUMER", bic |-> "SCFBESMMXXX"],
     [code |-> <<"0","2","2","5">>, name |-> "BANCO-CETELEM", bic |-> "FIEIESM1XXX"],
     [code |-> <<"0","2","2","6">>, name |-> "UBS-BANK", bic |-> "UBSWESMMXXX"],
     [code |-> <<"0","2","2","7">>, name |-> "UNOE-BANK", bic |-> "UNOEESM1XXX"],
     [code |-> <<"3","0","5","8">>, name |-> "CAJAS-RURALES-UNIDAS CAJAMAR", bic |-> "CCRIES2AXXX"],
     [code |-> <<"3","0","5","9">>, name |-> "CAJA-RURAL-ASTURIAS", bic |-> "BCOEESMM059"],
     [code |-> <<"1","5","0","1">>, name |-> "DEUTSCHE-PFANDBRIEFBANK", bic |-> "DPBBESM1XXX"],
     [code |-> <<"2","4","2","7">>, name |-> "CAJA-INMACULADA", bic |-> "CECAESMM427"],
     [code |-> <<"2","4","2","2">>, name |-> "CAJA-MURCIA", bic |-> "CECAESMM043"],
     [code |-> <<"3","0","9","8">>, name |-> "CAJA-RURAL-NTRASENORAROSARIO", bic |-> "BCOEESMM098"],
     [code |-> <<"3","1","3","5">>, name |-> "CAJA-RURAL-SANJOSENULES", bic |-> "BCOEESMM135"],
     [code |-> <<"1","4","7","9">>, name |-> "NATIXIS", bic |-> "NATXESMMXXX"],
     [code |-> <<"3","1","1","9">>, name |-> "CAJA-RURAL-SANJAIME", bic |-> "BCOEESMM119"],
     [code |-> <<"3","1","1","8">>, name |-> "CAIXA-RURAL-TORRENT", bic |-> "BCOEESMM118"],
     [code |-> <<"3","1","1","7">>, name |-> "CAIXA-RURAL-DALGEMESI", bic |-> "BCOEESMM117"],
     [code |-> <<"0","1","9","6">>, name |-> "PORTIGON-AG", bic |-> "WELAESMMXXX"],
     [code |-> <<"2","0","8","0">>, name |-> "NGC-BANCO", bic |-> "CAGLESMMVIG"],
     [code |-> <<"2","0","8","6">>, name |-> "BANCO-GRUPO-CAJATRES", bic |-> "CECAESMM086"],
     [code |-> <<"3","1","1","2">>, name |-> "CAJA-RURAL-SANJOSEBURRIANA", bic |-> "BCOEESMM112"],
     [code |-> <<"3","1","1","1">>, name |-> "CAJA-RURAL-LAVALLSISIDRO", bic |-> "BCOEESMM111"],
     [code |-> <<"2","0","8","5">>, name |-> "IBERCAJA-BANCO", bic |-> "CAZRES2ZXXX"],
     [code |-> <<"0","1","5","6">>, name |-> "ROYAL-BANK-SCOTLAND", bic |-> "ABNAESMMXXX"],
     [code |-> <<"1","4","7","3">>, name |-> "BANQUE-PREIVEE EDMOND", bic |-> "PRIBESMXXXX"],
     [code |-> <<"0","1","5","4">>, name |-> "CREDIT-AGRICOLE-INVETBANK", bic |-> "BSUIESMMXXX"],
     [code |-> <<"0","1","5","5">>, name |-> "BANCO-DO-BRASIL", bic |-> "BRASESMMXXX"],
     [code |-> <<"0","1","5","2">>, name |-> "BARCLAYS-BANK", bic |-> "BPLCESMMXXX"],
     [code |-> <<"1","4","7","4">>, name |-> "CITIBANK-INTERNACIONAL", bic |-> "CITIESMXXXX"],
     [code |-> <<"0","1","5","1">>, name |-> "JPMORGAN", bic |-> "CHASESM3XXX"],
     [code |-> <<"0","0","9","4">>, name |-> "RBC-INVESTOR", bic |-> "BVALESMMXXX"],
     [code |-> <<"0","1","5","9">>, name |-> "COMMERZBANK", bic |-> "COBAESMXXXX"] >>

BANKS_literal ==
    [c \in {BANKS_TABLE[i].code : i \in DOMAIN BANKS_TABLE} |->
        LET e == BANKS_TABLE[CHOOSE i \in DOMAIN BANKS_TABLE : BANKS_TABLE[i].code = c]
        IN  [name |-> e.name, bic |-> e.bic]]

letters_literal ==
    <<"T","R","W","A","G","M","Y","F","P","D","X","B",
      "N","J","Z","S","Q","V","H","L","C","K","E">>

foreign_literal == <<"X","Y","Z">>

----------------------------------------------------------------------------
(* class BBAN                                                              *)

BBAN_first_check_digit(bank, branch) ==
    Bind(map_int(bank \o branch), LAMBDA concat :
        LET multi_seq == <<4, 8, 5, 10, 9, 7, 3, 6>>
            multi_sum == sum_zip(concat, multi_seq)
            remainder == multi_sum % 11
            digit     == 11 - remainder
        IN  Return(str(IF digit = 10 THEN 1 ELSE IF digit = 11 THEN 0 ELSE digit)))

\* _second_check_digit with the result of the subtraction returned as it is
BBAN_second_check_digit_unconverted(account) ==
    Bind(map_int(account), LAMBDA concat :
        LET multi_seq == <<1, 2, 4, 8, 5, 10, 9, 7, 3, 6>>
            multi_sum == sum_zip(concat, multi_seq)
            remainder == multi_sum % 11
            digit     == 11 - remainder
        IN  Return(str(digit)))

BBAN_second_check_digit(account) ==
    Bind(map_int(account), LAMBDA concat :
        LET multi_seq == <<1, 2, 4, 8, 5, 10, 9, 7, 3, 6>>
            multi_sum == sum_zip(concat, multi_seq)
            remainder == multi_sum % 11
            digit     == 11 - remainder
        IN  Return(str(IF digit = 10 THEN 1 ELSE IF digit = 11 THEN 0 ELSE digit)))

BBAN_validate(number) ==
    IF Len(number) # 20 THEN Raise("BBANInvalidLength")
    ELSE
      LET bank               == Slice(number, 0, 4)
          branch             == Slice(number, 4, 8)
          first_check_digit  == <<Item(number, 8)>>
          second_check_digit == <<Item(number, 9)>>
          account            == SliceFrom(number, 10)
      IN  IF bank \notin DOMAIN BANKS THEN Raise("BBANInvalidBankCode")
          ELSE
            Bind(BBAN_first_check_digit(bank, branch), LAMBDA real_first_check_digit :
              IF first_check_digit # real_first_check_digit
              THEN Raise("BBANInvalidBankBranchCheckDigit")
              ELSE
                Bind(BBAN_second_check_digit(account), LAMBDA real_second_check_digit :
                  IF second_check_digit # real_second_check_digit
                  THEN Raise("BBANInvalidAccountCheckDigit")
                  ELSE Return(number)))

\* BBAN(number) without the call of BBAN.validate
BBAN_init_unvalidated(number) ==
    Return([cls     |-> "BBAN",
            bank    |-> Slice(number, 0, 4),
            branch  |-> Slice(number, 4, 8),
            account |-> SliceFrom(number, 10)])

\* BBAN(number)
BBAN_init(number) ==
    Bind(BBAN_validate(number), LAMBDA validated :
        Return([cls     |-> "BBAN",
                bank    |-> Slice(number, 0, 4),
                branch  |-> Slice(number, 4, 8),
                account |-> SliceFrom(number, 10)]))

\* the property BBAN.check_digit
BBAN_check_digit(self) ==
    Bind(BBAN_first_check_digit(self.bank, self.branch), LAMBDA first :
        Bind(BBAN_second_check_digit(self.account), LAMBDA second :
            Return(first \o second)))

\* the property BBAN.number
BBAN_number(self) ==
    Bind(BBAN_check_digit(self), LAMBDA check_digit :
        BBAN_validate(self.bank \o self.branch \o check_digit \o self.account))

\* BBAN.generate with the drawn account used as str() gives it
BBAN_generate_unpadded(bank, branch, account, rnd) ==
    IF account = None
    THEN
      LET account1 == str_long(rnd)
      IN  Bind(BBAN_first_check_digit(bank, branch), LAMBDA first_cd :
            Bind(BBAN_second_check_digit(account1), LAMBDA second_cd :
              BBAN_init(bank \o branch \o first_cd \o second_cd \o account1)))
    ELSE Raise("UnboundLocalError")

\* BBAN.generate(bank, branch, account); rnd is the value random.randrange
\* returns when it is called.  With an account given, first_cd and
\* second_cd are never assigned and the return statement reads them.
BBAN_generate(bank, branch, account, rnd) ==
    IF account = None
    THEN
      LET number   == str_long(rnd)
          account1 == zfill(number, 10)
      IN  Bind(BBAN_first_check_digit(bank, branch), LAMBDA first_cd :
            Bind(BBAN_second_check_digit(account1), LAMBDA second_cd :
              BBAN_init(bank \o branch \o first_cd \o second_cd \o account1)))
    ELSE Raise("UnboundLocalError")

----------------------------------------------------------------------------
(* class IBAN                                                              *)

\* the loop of _calc_check_digit: each letter becomes its 2-digit number
\* (alphabet_seq.index raises ValueError for a letter that is not in
\* string.ascii_uppercase)
RECURSIVE LettersToNumbers(_)
LettersToNumbers(s) ==
    IF s = <<>> THEN Return(<<>>)
    ELSE
      Bind(LettersToNumbers(SubSeq(s, 1, Len(s) - 1)), LAMBDA new_number :
        IF isalpha(s[Len(s)])
        THEN Bind(Index(ascii_uppercase, s[Len(s)]), LAMBDA idx :
               Return(new_number \o str(idx + 10)))
        ELSE Return(new_number \o <<s[Len(s)]>>))

IBAN_calc_check_digit(number) ==
    LET bban    == Slice(number, 4, 8)
        country == Slice(number, 0, 2) \o <<"0","0">>
    IN  Bind(LettersToNumbers(bban \o country), LAMBDA new_number :
          Bind(int_mod(new_number, 97), LAMBDA r :
            Return(zfill(str(98 - r), 2))))

IBAN_validate(number) ==
    IF Len(number) # 24 THEN Raise("IBANInvalidLength")
    ELSE
      LET country     == Slice(number, 0, 2)
          check_digit == Slice(number, 2, 4)
          bank        == Slice(number, 4, 8)
      IN  IF upper(country) # <<"E","S">> THEN Raise("IBANInvalidCountry")
          ELSE
            Bind(IBAN_calc_check_digit(number), LAMBDA real_check_digit :
              IF check_digit # real_check_digit THEN Raise("IBANInvalidCheckDigit")
              ELSE IF bank \notin DOMAIN BANKS THEN Raise("IBANInvalidBankCode")
              ELSE Return(number))

\* IBAN(number)
IBAN_init(number) ==
    Bind(IBAN_validate(number), LAMBDA validated :
        Bind(BBAN_init(SliceFrom(number, 4)), LAMBDA bban :
            Return([cls |-> "IBAN", country |-> Slice(number, 0, 2), bban |-> bban])))

\* the property IBAN.check_digit
IBAN_check_digit(self) ==
    Bind(BBAN_number(self.bban), LAMBDA bban :
        IBAN_calc_check_digit(self.country \o <<"0","0">> \o bban))

\* the property IBAN.number
IBAN_number(self) ==
    Bind(IBAN_check_digit(self), LAMBDA check_digit :
        Bind(BBAN_number(self.bban), LAMBDA bban :
            IBAN_validate(self.country \o check_digit \o bban)))

IBAN_generate(bank, branch, account, rnd) ==
    Bind(BBAN_generate(bank, branch, account, rnd), LAMBDA obj :
        Bind(BBAN_number(obj), LAMBDA bban :
            Bind(IBAN_calc_check_digit(<<"E","S">> \o <<"0","0">> \o bban), LAMBDA check_digit :
                IBAN_init(<<"E","S">> \o check_digit \o bban))))

----------------------------------------------------------------------------
(* class Bank                                                              *)

Bank_default_branch == <<"0","0","0">>

\* Bank(code, branch): BANKS[code] raises KeyError for an unknown code
Bank_init(code, branch) ==
    IF code \notin DOMAIN BANKS THEN Raise("KeyError")
    ELSE Return([cls     |-> "Bank",
                 country |-> <<"E","S">>,
                 code    |-> code,
                 branch  |-> branch,
                 name    |-> BANKS[code].name,
                 bic     |-> BANKS[code].bic])

----------------------------------------------------------------------------
(* class DNI                                                               *)

\* DNI.validate with a wrong length reported as a boolean
DNI_validate_length_as_false(pin) ==
    IF Len(pin) # 9 THEN Return(FALSE)
    ELSE
      LET check_digit == Item(pin, 8)
          pin8        == Slice(pin, 0, 8)
          pinN        == IF Contains(foreign, Item(pin8, 0))
                         THEN replace(pin8, Item(pin8, 0),
                                      str(Index(foreign, Item(pin8, 0)).val))
                         ELSE pin8
      IN  Bind(int(pinN), LAMBDA n :
            Return(check_digit = letters[(n % 23) + 1]))

DNI_validate(pin) ==
    IF Len(pin) # 9 THEN Raise("InvalidPinError")
    ELSE
      LET check_digit == Item(pin, 8)
          pin8        == Slice(pin, 0, 8)
          pinN        == IF Contains(foreign, Item(pin8, 0))
                         THEN replace(pin8, Item(pin8, 0),
                                      str(Index(foreign, Item(pin8, 0)).val))
                         ELSE pin8
      IN  Bind(int(pinN), LAMBDA n :
            Return(check_digit = letters[(n % 23) + 1]))

\* DNI.national(); r is the value random.randint(0, 9999999) returns
DNI_national(r) ==
    LET dni         == zfill(str(r), 8)
        check_digit == int(dni).val % 23
    IN  dni \o <<letters[check_digit + 1]>>

\* DNI.foreign() with the check letter taken from the 7 digits alone
DNI_foreign_without_prefix(choice, r) ==
    LET letter      == Index(foreign, choice).val
        dni         == zfill(str(r), 7)
        numeric_nie == int(dni).val
        check_digit == numeric_nie % 23
    IN  <<foreign[letter + 1]>> \o dni \o <<letters[check_digit + 1]>>

\* DNI.foreign(); choice is the value random.choice(foreign) returns,
\* r the value random.randint(0, 9999999) returns
DNI_foreign(choice, r) ==
    LET letter      == Index(foreign, choice).val
        dni         == zfill(str(r), 7)
        numeric_nie == int(str(letter) \o dni).val
        check_digit == numeric_nie % 23
    IN  <<foreign[letter + 1]>> \o dni \o <<letters[check_digit + 1]>>

\* the property DNI.value; pin_type is the method random.choice(pin_type)
\* returns.  A pin that fails validation falls off the end: None.
DNI_value(pin_type, choice, r) ==
    LET pin == IF pin_type = "national" THEN DNI_national(r) ELSE DNI_foreign(choice, r)
    IN  Bind(DNI_validate(pin), LAMBDA valid :
          IF valid THEN Return(pin) ELSE Return(None))

----------------------------------------------------------------------------
(* Inputs of the calls.                                                    *)

Repeat(c, n) == [i \in 1..n |-> c]

ING_DIRECT == <<"1","4","6","5">>

\* bank codes passed to generate and Bank: registry codes, a code that is
\* not in the registry, a code that is not numeric
BankInputs ==
    {ING_DIRECT} \cup {BANKS_TABLE[i].code : i \in 1..MaxBanks}
        \cup {<<"9","9","9","9">>, <<"1","4","A","5">>}

\* 4-digit branch codes
BranchInputs ==
    {zfill(str((k * 1237) % 10000), 4) : k \in 0..MaxBranch} \cup {<<"9","9","9","9">>}

\* the account argument: omitted, or a 10-digit account
AccountInputs ==
    {None,
     zfill(str(0), 10),
     zfill(str(1), 10),
     Repeat("9", 10),
     zfill(str_long(<<12345, 67890>>), 10)}

\* arguments of the check-digit functions called on their own
CheckDigitBranches == BranchInputs \cup {zfill(str(k), 4) : k \in 0..MaxCheck}

CheckDigitAccounts ==
    (AccountInputs \ {None}) \cup {zfill(str(k), 10) : k \in 0..MaxCheck}

\* values of random.randrange(9999999999): 0 .. 9999999998, as limbs
RandrangeDraws ==
    {<<0, 0>>, <<0, 1>>, <<99999, 99998>>}
        \cup {<<(k * 31337) % 100000, (k * 7919) % 100000>> : k \in 1..MaxRnd}

\* the upper bound of random.randint(0, 9999999) in DNI.national and DNI.foreign
randint_max == 9999999

\* values of random.randint(0, 9999999)
RandintDraws ==
    {0, randint_max} \cup {(k * 1234567) % 10000000 : k \in 1..MaxBody}

\* characters written over a character of a code
MutChars == {"0", "7", "A", "e", "s", "#"}

ReplaceAt(s, i, c) == [s EXCEPT ![i] = c]

ReplaceField(s, a, w) == SubSeq(s, 1, a) \o w \o SubSeq(s, a + Len(w) + 1, Len(s))

\* one character replaced, a 2-character field replaced, one character
\* dropped or added
Edits(base, fields) ==
    {ReplaceAt(base, i, c) : i \in 1..Len(base), c \in MutChars}
        \cup {ReplaceField(base, a, <<c, d>>) : a \in fields, c \in MutChars, d \in MutChars}
        \cup {SubSeq(base, 1, Len(base) - 1), base \o <<"0">>}

BBANLiterals ==
    {<<>>, Repeat("X", 19), Repeat("X", 20), Repeat("X", 21),
     <<"9","9","9","9">> \o Repeat("X", 16)}

IBANLiterals ==
    {<<>>, Repeat("X", 23), Repeat("X", 24), Repeat("X", 25),
     <<"E","S","0","0">> \o Repeat("X", 20)}

Returned(r) == IF Raised(r) THEN {} ELSE {r.val}

\* the string of the object the last generate call returned
LastBBAN ==
    IF op = "BBAN.generate" /\ ~Raised(result)
    THEN Returned(BBAN_number(result.val))
    ELSE {}

LastIBAN ==
    IF op = "IBAN.generate" /\ ~Raised(result)
    THEN Returned(IBAN_number(result.val))
    ELSE {}

\* a code DNI.validate has just accepted, or DNI().value has just returned
LastPin ==
    IF op = "DNI.value" /\ ~Raised(result) /\ result.val # None THEN {result.val}
    ELSE IF op = "DNI.validate" /\ ~Raised(result) /\ result.val THEN {args.pin}
    ELSE {}

PinChars == {"0", "1", "5", "9", "X", "Y", "Z", "T", "R", "#"}

PinLiterals == {<<>>, Repeat("X", 9), Repeat("0", 8), Repeat("0", 10)}

----------------------------------------------------------------------------
(* The state machine: one action per call on the public interface.  The    *)
(* functions keep no state of their own, so a call that takes its input    *)
(* from nowhere is made by a caller that holds no outcome (Idle), and a    *)
(* call that takes its input from the last outcome follows it; Discard     *)
(* drops the outcome held.                                                 *)

Init ==
    /\ BANKS = BANKS_literal
    /\ letters = letters_literal
    /\ foreign = foreign_literal
    /\ op = "import"
    /\ args = <<>>
    /\ result = Return(None)

Idle == op = "import"

\* a call after which BBAN.validate has taken the accepted bank code out of
\* the registry
Call_dropping_validated_bank(o, a, r) ==
    /\ op' = o
    /\ args' = a
    /\ result' = r
    /\ BANKS' = IF o = "BBAN.validate" /\ ~Raised(r)
                THEN [c \in DOMAIN BANKS \ {Slice(r.val, 0, 4)} |-> BANKS[c]]
                ELSE BANKS
    /\ UNCHANGED <<letters, foreign>>

\* No call assigns to the module-level tables.
Call(o, a, r) ==
    /\ op' = o
    /\ args' = a
    /\ result' = r
    /\ UNCHANGED <<BANKS, letters, foreign>>

CallBBANGenerate ==
    /\ Idle
    /\ \E bank \in BankInputs, branch \in BranchInputs, account \in AccountInputs,
           rnd \in RandrangeDraws :
        /\ account # None => rnd = <<0, 0>>
        /\ Call("BBAN.generate",
                [bank |-> bank, branch |-> branch, account |-> account,
                 rnd |-> IF account = None THEN rnd ELSE None],
                BBAN_generate(bank, branch, account, rnd))

\* BBAN.validate of the string of a generated BBAN, edited
CallBBANValidateEdited ==
    \E number \in UNION {Edits(b, {8}) : b \in LastBBAN} :
        Call("BBAN.validate", [number |-> number], BBAN_validate(number))

CallBBANValidate ==
    /\ Idle
    /\ \E number \in BBANLiterals :
        Call("BBAN.validate", [number |-> number], BBAN_validate(number))

CallIBANGenerate ==
    /\ Idle
    /\ \E bank \in BankInputs, branch \in BranchInputs, account \in AccountInputs,
           rnd \in RandrangeDraws :
        /\ account # None => rnd = <<0, 0>>
        /\ Call("IBAN.generate",
                [bank |-> bank, branch |-> branch, account |-> account,
                 rnd |-> IF account = None THEN rnd ELSE None],
                IBAN_generate(bank, branch, account, rnd))

\* IBAN.validate of the string of a generated IBAN, edited
CallIBANValidateEdited ==
    \E number \in UNION {Edits(b, {0, 2, 12}) : b \in LastIBAN} :
        Call("IBAN.validate", [number |-> number], IBAN_validate(number))

CallIBANValidate ==
    /\ Idle
    /\ \E number \in IBANLiterals :
        Call("IBAN.validate", [number |-> number], IBAN_validate(number))

\* IBAN._calc_check_digit(country + "00" + bban) on the string of a BBAN
CallCalcCheckDigit ==
    \E bban \in LastBBAN :
        LET number == <<"E","S">> \o <<"0","0">> \o bban IN
        Call("IBAN._calc_check_digit", [number |-> number], IBAN_calc_check_digit(number))

\* bank = bankaccount.Bank(code)
CallBank ==
    /\ Idle
    /\ \E code \in BankInputs :
        Call("Bank", [code |-> code], Bank_init(code, Bank_default_branch))

\* the module docstring's usage, after bank = bankaccount.Bank(code):
\*   bankaccount.BBAN.generate(bank.code, bank.branch)
UsageBBANGenerate ==
    /\ op = "Bank" /\ ~Raised(result)
    /\ \E rnd \in RandrangeDraws :
        Call("usage BBAN.generate",
             [bank |-> result.val.code, branch |-> result.val.branch,
              account |-> None, rnd |-> rnd],
             BBAN_generate(result.val.code, result.val.branch, None, rnd))

\*   bankaccount.IBAN.generate(bank.code, bank.branch)
UsageIBANGenerate ==
    /\ op = "Bank" /\ ~Raised(result)
    /\ \E rnd \in RandrangeDraws :
        Call("usage IBAN.generate",
             [bank |-> result.val.code, branch |-> result.val.branch,
              account |-> None, rnd |-> rnd],
             IBAN_generate(result.val.code, result.val.branch, None, rnd))

\* DNI().value
CallDNIValue ==
    /\ Idle
    /\ \E pin_type \in {"national", "foreign"}, i \in DOMAIN foreign, r \in RandintDraws :
        /\ pin_type = "national" => i = 1
        /\ Call("DNI.value",
                [pin_type |-> pin_type,
                 choice |-> IF pin_type = "foreign" THEN foreign[i] ELSE None,
                 r |-> r],
                DNI_value(pin_type, foreign[i], r))

\* DNI.validate of an accepted code with one character written over
CallDNIValidateEdited ==
    \E base \in LastPin, pos \in 1..9, ch \in PinChars :
        Call("DNI.validate",
             [pin |-> ReplaceAt(base, pos, ch), base |-> base, pos |-> pos, ch |-> ch],
             DNI_validate(ReplaceAt(base, pos, ch)))

\* DNI.validate of any other string
CallDNIValidate ==
    \E pin \in (IF Idle THEN PinLiterals ELSE {})
                \cup UNION {{SubSeq(b, 1, 8), b \o <<"0">>} : b \in LastPin} :
        Call("DNI.validate", [pin |-> pin, base |-> None, pos |-> 0, ch |-> ""],
             DNI_validate(pin))

\* BBAN(number) on a literal, or on the string of a generated BBAN, edited
CallBBAN ==
    \E number \in (IF Idle THEN BBANLiterals ELSE {})
                    \cup UNION {Edits(b, {8}) : b \in LastBBAN} :
        Call("BBAN", [number |-> number], BBAN_init(number))

\* IBAN(number) on a literal, or on the string of a generated IBAN, edited
CallIBAN ==
    \E number \in (IF Idle THEN IBANLiterals ELSE {})
                    \cup UNION {Edits(b, {0, 2, 12}) : b \in LastIBAN} :
        Call("IBAN", [number |-> number], IBAN_init(number))

\* BBAN._first_check_digit(bank, branch)
CallFirstCheckDigit ==
    /\ Idle
    /\ \E bank \in BankInputs, branch \in CheckDigitBranches :
        Call("BBAN._first_check_digit", [bank |-> bank, branch |-> branch],
             BBAN_first_check_digit(bank, branch))

\* BBAN._second_check_digit(account)
CallSecondCheckDigit ==
    /\ Idle
    /\ \E account \in CheckDigitAccounts :
        Call("BBAN._second_check_digit", [account |-> account],
             BBAN_second_check_digit(account))

\* the same call made a second time on a code that has just been accepted
CallBBANValidateAgain ==
    /\ op = "BBAN.validate" /\ ~Raised(result)
    /\ Call("BBAN.validate again", [number |-> args.number, first |-> result],
            BBAN_validate(args.number))

CallIBANValidateAgain ==
    /\ op = "IBAN.validate" /\ ~Raised(result)
    /\ Call("IBAN.validate again", [number |-> args.number, first |-> result],
            IBAN_validate(args.number))

CallDNIValidateAgain ==
    /\ op = "DNI.validate" /\ ~Raised(result) /\ result.val
    /\ Call("DNI.validate again", [pin |-> args.pin, first |-> result],
            DNI_validate(args.pin))

\* the caller drops the outcome it holds
Discard ==
    /\ ~Idle
    /\ Call("import", <<>>, Return(None))

Next ==
    \/ CallBBANGenerate
    \/ CallBBANValidateEdited
    \/ CallBBANValidate
    \/ CallIBANGenerate
    \/ CallIBANValidateEdited
    \/ CallIBANValidate
    \/ CallCalcCheckDigit
    \/ CallBank
    \/ UsageBBANGenerate
    \/ UsageIBANGenerate
    \/ CallDNIValue
    \/ CallDNIValidateEdited
    \/ CallDNIValidate
    \/ CallBBAN
    \/ CallIBAN
    \/ CallFirstCheckDigit
    \/ CallSecondCheckDigit
    \/ CallBBANValidateAgain
    \/ CallIBANValidateAgain
    \/ CallDNIValidateAgain
    \/ Discard

Spec == Init /\ [][Next]_vars

----------------------------------------------------------------------------
(* The claims of the specification, stated on the outcome of a call.       *)

Is4Digits(s) == Len(s) = 4 /\ IsDecimal(s)

Is10Digits(s) == Len(s) = 10 /\ IsDecimal(s)

\* a returned BBAN whose string validates and gives back the fields asked for
ValidBBANFor(r, bank, branch, account) ==
    /\ ~Raised(r)
    /\ r.val.cls = "BBAN"
    /\ LET code == BBAN_number(r.val) IN
        /\ ~Raised(code)
        /\ Len(code.val) = 20
        /\ BBAN_validate(code.val) = Return(code.val)
        /\ Slice(code.val, 0, 4) = bank
        /\ Slice(code.val, 4, 8) = branch
        /\ Slice(code.val, 8, 10) = BBAN_check_digit(r.val).val
        /\ account # None => SliceFrom(code.val, 10) = account

\* a returned IBAN whose string starts with ES, validates and gives back
\* the fields asked for
ValidIBANFor(r, bank, branch, account) ==
    /\ ~Raised(r)
    /\ r.val.cls = "IBAN"
    /\ LET code == IBAN_number(r.val) IN
        /\ ~Raised(code)
        /\ Len(code.val) = 24
        /\ Slice(code.val, 0, 2) = <<"E","S">>
        /\ IBAN_validate(code.val) = Return(code.val)
        /\ r.val.country = <<"E","S">>
        /\ Slice(code.val, 2, 4) = IBAN_check_digit(r.val).val
        /\ ValidBBANFor(Return(r.val.bban), bank, branch, account)
        /\ SliceFrom(code.val, 4) = BBAN_number(r.val.bban).val

\* C1: BBAN round trip.  For every registry bank code, 4-digit branch and
\* 10-digit account passed explicitly, BBAN.generate returns a BBAN whose
\* 20-character string BBAN.validate accepts, with the same bank, branch,
\* check digits and account.
C1_BBANRoundTrip ==
    (/\ op = "BBAN.generate"
     /\ args.account # None
     /\ args.bank \in DOMAIN BANKS
     /\ Is4Digits(args.branch)
     /\ Is10Digits(args.account))
        => ValidBBANFor(result, args.bank, args.branch, args.account)

\* C2: IBAN round trip with a supplied account.  For every registry bank
\* code, 4-digit branch and 10-digit account passed explicitly (among them
\* bank 1465, branch 0000, account 0000000001), IBAN.generate returns an
\* IBAN whose 24-character string starts with ES, passes IBAN.validate and
\* reproduces the country, check digit and BBAN fields.
C2_IBANRoundTrip ==
    (/\ op = "IBAN.generate"
     /\ args.account # None
     /\ args.bank \in DOMAIN BANKS
     /\ Is4Digits(args.branch)
     /\ Is10Digits(args.account))
        => ValidIBANFor(result, args.bank, args.branch, args.account)

\* 98 - (N mod 97), 2 digits, N read from the 20 characters of the BBAN
\* followed by E = 14, S = 28 and 00
Mod97OverBBAN(bban) ==
    zfill(str(98 - IntValMod(bban \o <<"1","4","2","8">> \o <<"0","0">>, 97)), 2)

\* C3: the IBAN check digit is computed over the whole BBAN.  For every
\* candidate string ES + 00 + bban, _calc_check_digit returns the 2-digit
\* value 98 - (N mod 97), N being all 20 characters of the BBAN followed by
\* 1428 and 00.
C3_CheckDigitOverWholeBBAN ==
    (/\ op = "IBAN._calc_check_digit"
     /\ Len(args.number) = 24
     /\ Slice(args.number, 0, 4) = <<"E","S","0","0">>
     /\ IsDecimal(SliceFrom(args.number, 4)))
        => result = Return(Mod97OverBBAN(SliceFrom(args.number, 4)))

BBANCheckDigitErrors == {"BBANInvalidBankBranchCheckDigit", "BBANInvalidAccountCheckDigit"}

\* C4: IBAN.validate delegates the trailing 20 characters to BBAN.validate.
\* Every string IBAN.validate accepts has characters 5..24 accepted by
\* BBAN.validate, and a string that passes the checks of the IBAN itself
\* and whose BBAN part has a wrong check digit is rejected with the
\* failure BBAN.validate reports.
C4_IBANValidateDelegates ==
    op = "IBAN.validate" =>
        LET tail == BBAN_validate(SliceFrom(args.number, 4)) IN
        /\ ~Raised(result) => ~Raised(tail)
        /\ (/\ Len(args.number) = 24
            /\ tail.exc \in BBANCheckDigitErrors
            /\ Slice(args.number, 0, 2) = <<"E","S">>)
                => (Raised(result) /\ (result.exc \in BBANCheckDigitErrors => result.exc = tail.exc))

\* C5: IBAN.validate length and country checks.  A string whose length is
\* not 24 fails with the IBAN length error; a 24-character string whose
\* first two characters are not exactly ES (es, Es, eS included) fails with
\* the IBAN country error and with no other failure.
C5_LengthAndCountryErrors ==
    op = "IBAN.validate" =>
        /\ Len(args.number) # 24 => result = Raise("IBANInvalidLength")
        /\ (Len(args.number) = 24 /\ Slice(args.number, 0, 2) # <<"E","S">>)
                => result = Raise("IBANInvalidCountry")

\* the outcome the fixed order of checks gives: a 9th (10th) character is
\* wrong when it is not the check digit of the branch (account) part,
\* also when that part has no check digit
FirstFailingCheck(number) ==
    IF Len(number) # 20 THEN Raise("BBANInvalidLength")
    ELSE IF Slice(number, 0, 4) \notin DOMAIN BANKS THEN Raise("BBANInvalidBankCode")
    ELSE IF BBAN_first_check_digit(Slice(number, 0, 4), Slice(number, 4, 8))
                # Return(<<Item(number, 8)>>)
         THEN Raise("BBANInvalidBankBranchCheckDigit")
    ELSE IF BBAN_second_check_digit(SliceFrom(number, 10)) # Return(<<Item(number, 9)>>)
         THEN Raise("BBANInvalidAccountCheckDigit")
    ELSE Return(number)

\* C6: BBAN.validate reports the first failing check in a fixed order:
\* length, then unknown bank, then the branch check digit (9th character),
\* then the account check digit (10th character); with both check digits
\* wrong the branch one is reported; otherwise the input is returned.
C6_FirstFailingCheckReported ==
    op = "BBAN.validate" => result = FirstFailingCheck(args.number)

\* C7 (as claimed): for every string whose length is not 9, DNI.validate
\* returns false instead of raising.
C7_WrongLengthReturnsFalse ==
    (op = "DNI.validate" /\ Len(args.pin) # 9)
        => (~Raised(result) /\ result.val = FALSE)

\* C7 (amended): for every string whose length is not 9, DNI.validate
\* raises InvalidPinError; it returns no boolean.
C7_WrongLengthRaises ==
    (op = "DNI.validate" /\ Len(args.pin) # 9)
        => result = Raise("InvalidPinError")

C7_Witness ==
    /\ op = "DNI.validate"
    /\ Len(args.pin) = 8
    /\ args.pin # <<>>
    /\ result.exc = "InvalidPinError"

\* the i-th of the w decimal digits of n, as a character
DigitOf(n, w, i) == digits[((n \div (10 ^ (w - i))) % 10) + 1]

\* C8: national-ID self-consistency.  For every random choice of variant,
\* prefix letter and numeric body, DNI().value returns a 9-character code,
\* never None, that DNI.validate accepts; for the foreign variant the code
\* is the prefix letter, the 7 digits of the body and
\* letters[(prefixIndex * 10^7 + body) mod 23].
C8_GeneratedPinIsValid ==
    op = "DNI.value" =>
        /\ ~Raised(result)
        /\ result.val # None
        /\ Len(result.val) = 9
        /\ DNI_validate(result.val) = Return(TRUE)
        /\ args.pin_type = "foreign" =>
            LET prefixIndex == CHOOSE i \in 0..2 : foreign[i + 1] = args.choice IN
            /\ result.val[1] = args.choice
            /\ \A i \in 1..7 : result.val[i + 1] = DigitOf(args.r, 7, i)
            /\ result.val[9] = letters[((prefixIndex * 10000000 + args.r) % 23) + 1]

C8_Witness ==
    /\ op = "DNI.value"
    /\ args.pin_type = "foreign"
    /\ args.choice = "Z"
    /\ args.r = 9999999
    /\ ~Raised(result)
    /\ result.val # None
    /\ result.val[1] = "Z"

\* the mutations of the claim: a body digit replaced by another digit, the
\* foreign prefix by another prefix letter, the check letter by another
\* letter of the alphabet
ClaimedMutation(base, pos, ch) ==
    /\ ch # base[pos]
    /\ \/ pos \in 1..8 /\ isdigit(base[pos]) /\ isdigit(ch)
       \/ pos = 1 /\ Contains(foreign, base[pos]) /\ Contains(foreign, ch)
       \/ pos = 9 /\ Contains(letters, ch)

\* C9: single-character mutation of a valid national ID is detected.  For
\* every 9-character code DNI.validate accepts, each such mutation gives a
\* code for which DNI.validate returns false.
C9_MutationDetected ==
    (/\ op = "DNI.validate"
     /\ args.pos \in 1..9
     /\ DNI_validate(args.base) = Return(TRUE)
     /\ ClaimedMutation(args.base, args.pos, args.ch))
        => (~Raised(result) /\ result.val = FALSE)

\* C10: the documented usage works.  For a Bank built from a registry code
\* alone, BBAN.generate(bank.code, bank.branch) returns a valid
\* 20-character BBAN and IBAN.generate(bank.code, bank.branch) a valid
\* 24-character IBAN.
C10_DocumentedUsageWorks ==
    /\ op = "usage BBAN.generate"
            => ValidBBANFor(result, args.bank, args.branch, None)
    /\ op = "usage IBAN.generate"
            => ValidIBANFor(result, args.bank, args.branch, None)

BBANErrors ==
    {"BBANInvalidLength", "BBANInvalidBankCode",
     "BBANInvalidBankBranchCheckDigit", "BBANInvalidAccountCheckDigit"}

IBANErrors ==
    {"IBANInvalidLength", "IBANInvalidCountry", "IBANInvalidCheckDigit",
     "IBANInvalidBankCode"}

\* C11: validation failures are always typed.  For every input string,
\* BBAN.validate returns the input unchanged or fails with one of the four
\* BBAN error kinds, and IBAN.validate returns the input unchanged or
\* fails with one of the IBAN or BBAN error kinds; no other kind of
\* failure (a digit-conversion or lookup error) reaches the caller.
C11_ValidationFailuresTyped ==
    /\ op = "BBAN.validate"
            => (result = Return(args.number) \/ result.exc \in BBANErrors)
    /\ op = "IBAN.validate"
            => (result = Return(args.number) \/ result.exc \in IBANErrors \cup BBANErrors)

\* C12: idempotence and no hidden state.  After any sequence of generate
\* and validate calls on BBAN, IBAN and DNI the bank registry and the
\* letter tables are as they were at import, and validating an accepted
\* code a second time gives the result of the first time.
C12_NoHiddenState ==
    /\ BANKS = BANKS_literal
    /\ letters = letters_literal
    /\ foreign = foreign_literal
    /\ op \in {"BBAN.validate again", "IBAN.validate again", "DNI.validate again"}
            => result = args.first

C12_Witness ==
    /\ op = "BBAN.validate again"
    /\ args.first = Return(args.number)
    /\ Len(args.number) = 20
    /\ result = Return(args.number)
    /\ BANKS = BANKS_literal

\* sum of digit times weight over the first n positions
RECURSIVE WeightedSum(_, _, _)
WeightedSum(ds, ws, n) ==
    IF n = 0 THEN 0 ELSE WeightedSum(ds, ws, n - 1) + DigitVal(ds[n]) * ws[n]

\* defined when there are as many digits as weights
WeightedModulus(ds, ws) == WeightedSum(ds, ws, Len(ws)) % 11

\* 11 - remainder, with 11 (remainder 0) written "0" and 10 (remainder 1)
\* written "1"
ElevenComplement(remainder) ==
    IF remainder = 0 THEN <<"0">>
    ELSE IF remainder = 1 THEN <<"1">>
    ELSE <<digits[(11 - remainder) + 1]>>

BankBranchWeights == <<4, 8, 5, 10, 9, 7, 3, 6>>

AccountWeights == <<1, 2, 4, 8, 5, 10, 9, 7, 3, 6>>

IsOneDigit(s) == Len(s) = 1 /\ IsDecimal(s)

\* C13: the BBAN check digits follow the mod-11 complement rule.
\* _first_check_digit(bank, branch) is 11 - (weighted sum mod 11) of the 8
\* digits of bank+branch under weights 4,8,5,10,9,7,3,6 and
\* _second_check_digit(account) that of the 10 account digits under
\* weights 1,2,4,8,5,10,9,7,3,6; a weighted sum equal to 0 mod 11 gives
\* "0", equal to 1 gives "1", and the result is one character 0..9.
C13_Mod11Complement ==
    /\ (/\ op = "BBAN._first_check_digit"
        /\ Is4Digits(args.bank)
        /\ Is4Digits(args.branch))
            => /\ result = Return(ElevenComplement(
                                WeightedModulus(args.bank \o args.branch, BankBranchWeights)))
               /\ IsOneDigit(result.val)
    /\ (/\ op = "BBAN._second_check_digit"
        /\ Is10Digits(args.account))
            => /\ result = Return(ElevenComplement(
                                WeightedModulus(args.account, AccountWeights)))
               /\ IsOneDigit(result.val)

C13_Witness ==
    /\ op = "BBAN._second_check_digit"
    /\ Is10Digits(args.account)
    /\ WeightedModulus(args.account, AccountWeights) = 1
    /\ result = Return(<<"1">>)

\* the 10 digits of the account drawn, zero-padded
DrawnAccount(rnd) ==
    [i \in 1..10 |-> IF i <= 5 THEN DigitOf(rnd[1], 5, i) ELSE DigitOf(rnd[2], 5, i - 5)]

\* bank(4) + branch(4) + first check digit + second check digit + account(10)
AssembledBBAN(bank, branch, account) ==
    bank \o branch
         \o ElevenComplement(WeightedModulus(bank \o branch, BankBranchWeights))
         \o ElevenComplement(WeightedModulus(account, AccountWeights))
         \o account

\* C14: generation with the account omitted never fails.  For every
\* registry bank code, 4-digit numeric branch and random draw,
\* BBAN.generate(bank, branch) returns a BBAN whose 20 characters are
\* bank + branch + first check digit + second check digit + the draw
\* zero-padded to 10 digits, and IBAN.generate(bank, branch) returns an
\* IBAN whose 24 characters are ES + a 2-digit check digit + that BBAN.
C14_GenerateWithoutAccount ==
    (/\ op \in {"BBAN.generate", "IBAN.generate"}
     /\ args.account = None
     /\ args.bank \in DOMAIN BANKS
     /\ Is4Digits(args.branch))
        => LET bban == AssembledBBAN(args.bank, args.branch, DrawnAccount(args.rnd)) IN
           /\ ~Raised(result)
           /\ Len(bban) = 20
           /\ op = "BBAN.generate" => BBAN_number(result.val) = Return(bban)
           /\ op = "IBAN.generate" =>
                LET number == IBAN_number(result.val) IN
                /\ ~Raised(number)
                /\ Len(number.val) = 24
                /\ Slice(number.val, 0, 2) = <<"E","S">>
                /\ IsDecimal(Slice(number.val, 2, 4))
                /\ SliceFrom(number.val, 4) = bban

C14_Witness ==
    /\ op = "IBAN.generate"
    /\ args.account = None
    /\ args.bank \in DOMAIN BANKS
    /\ Is4Digits(args.branch)
    /\ args.rnd = <<0, 1>>
    /\ ~Raised(result)
    /\ Len(IBAN_number(result.val).val) = 24

\* the calls that return a BBAN object, and those that return an IBAN object
BBANObjectOps == {"BBAN", "BBAN.generate", "usage BBAN.generate"}

IBANObjectOps == {"IBAN", "IBAN.generate", "usage IBAN.generate"}

\* a BBAN object whose number has 20 characters, a registry bank code and
\* the two check digits recomputed from its other fields
WellFormedBBAN(obj) ==
    /\ obj.cls = "BBAN"
    /\ Is4Digits(obj.bank) /\ Is4Digits(obj.branch) /\ Is10Digits(obj.account)
    /\ obj.bank \in DOMAIN BANKS_literal
    /\ LET number == BBAN_number(obj) IN
        /\ ~Raised(number)
        /\ Len(number.val) = 20
        /\ number.val = AssembledBBAN(obj.bank, obj.branch, obj.account)

\* an IBAN object whose number has 24 characters, country ES, the check
\* digit recomputed from its other fields, and a well-formed BBAN
WellFormedIBAN(obj) ==
    /\ obj.cls = "IBAN"
    /\ obj.country = <<"E","S">>
    /\ WellFormedBBAN(obj.bban)
    /\ LET number == IBAN_number(obj)
           bban   == BBAN_number(obj.bban).val
       IN
        /\ ~Raised(number)
        /\ Len(number.val) = 24
        /\ Slice(number.val, 0, 2) = <<"E","S">>
        /\ SliceFrom(number.val, 4) = bban
        /\ Return(Slice(number.val, 2, 4))
                = IBAN_calc_check_digit(<<"E","S","0","0">> \o bban)

\* C15: no partially-valid instance exists.  Every BBAN object a
\* construction or a generate call returns has a 20-character number with
\* a registry bank code and the recomputed check digits, every IBAN object
\* a 24-character number with country ES, the recomputed check digit and
\* such a BBAN; the number of a constructed object is the string it was
\* constructed from, and a construction whose input fails validation
\* raises and returns no object.
C15_NoPartiallyValidInstance ==
    /\ (op \in BBANObjectOps /\ ~Raised(result)) => WellFormedBBAN(result.val)
    /\ (op \in IBANObjectOps /\ ~Raised(result)) => WellFormedIBAN(result.val)
    /\ op = "BBAN" =>
        /\ Raised(BBAN_validate(args.number)) => Raised(result)
        /\ ~Raised(result) => BBAN_number(result.val) = Return(args.number)
    /\ op = "IBAN" =>
        /\ Raised(IBAN_validate(args.number)) => Raised(result)
        /\ Raised(BBAN_validate(SliceFrom(args.number, 4))) => Raised(result)
        /\ ~Raised(result) => IBAN_number(result.val) = Return(args.number)

\* IBAN(number) on a string IBAN.validate accepts and whose BBAN part has a
\* wrong check digit: no object
C15_Witness ==
    /\ op = "IBAN"
    /\ IBAN_validate(args.number) = Return(args.number)
    /\ BBAN_validate(SliceFrom(args.number, 4)).exc \in BBANCheckDigitErrors
    /\ Raised(result)

\* C16: the national generator draws its body from the whole 8-digit
\* range.  The code DNI.national produces is its draw zero-padded to 8
\* digits followed by letters[body mod 23], and the bodies it can produce
\* are 00000000 .. 99999999: the largest draw gives the body 99999999, a
\* body whose leading digit is not zero.
C16_NationalBodyRange ==
    (op = "DNI.value" /\ args.pin_type = "national")
        => /\ ~Raised(result)
           /\ result.val # None
           /\ \A i \in 1..8 : result.val[i] = DigitOf(args.r, 8, i)
           /\ result.val[9] = letters[(args.r % 23) + 1]
           /\ args.r = randint_max
                => (Slice(result.val, 0, 8) = Repeat("9", 8) /\ result.val[1] # "0")

=============================================================================
